---------------------------- MODULE Spec2Model ----------------------------
(* Model of components/rendering/src/codeblock/highlight.rs: the three      *)
(* rendering strategies of a code block (SyntaxHighlighter::Inlined,        *)
(* ::Classed, ::NoHighlight), their side-channel accessors and the colour   *)
(* formatter.  Strings are sequences of one-character strings, so that      *)
(* substring search, replacement and escaping are computed, not assumed.    *)
(* The grammar engine (ParseState::parse_line, HighlightLines::highlight)    *)
(* is outside the file: its results are chosen nondeterministically, under  *)
(* its contract that it closes only the contexts it has opened; the markup  *)
(* builders of syntect and tera's escape_html are computed character by     *)
(* character.                                                                *)
EXTENDS Integers, Sequences, FiniteSets, TLC

VARIABLES
    highlight_code,  \* SyntaxHighlighter::new argument
    theme,           \* s.theme: NoTheme or the theme's optional settings
    debug,           \* TRUE iff the build has debug assertions enabled
    variant,         \* "Inlined" | "Classed" | "NoHighlight"
    open_spans,      \* ClassHighlighter.open_spans
    scope_stack,     \* ClassHighlighter.scope_stack
    parse_state,     \* ClassHighlighter.parse_state: contexts the tokenizer has open
    fg_color,        \* InlineHighlighter.fg_color
    bg_color,        \* InlineHighlighter.bg_color
    op,              \* the last operation called
    arg,             \* the text passed to the last highlight_line call
    ret,             \* what the last operation returned
    panicked,        \* the last operation panicked instead of returning
    lines,           \* number of highlight_line calls so far
    finalizes,       \* number of finalize calls so far
    streak,          \* number of finalize calls since the last highlight_line call
    balance,         \* "<span" minus "</span>" occurrences in the concatenation of
                     \* everything highlight_line and finalize returned so far
    tail,            \* the last characters of that concatenation
    color,           \* colour formatter: the colour to write
    buf              \* colour formatter: the string written to

vars == <<highlight_code, theme, debug, variant, open_spans, scope_stack,
          parse_state, fg_color, bg_color, op, arg, ret, panicked, lines,
          finalizes, streak, balance, tail, color, buf>>

-----------------------------------------------------------------------------
(* Bounds *)

MaxLines == 2
MaxFinalize == 2

-----------------------------------------------------------------------------
(* Strings *)

NoneVal == [some |-> FALSE]
Some(v) == [some |-> TRUE, val |-> v]

RECURSIVE Rep(_, _)
Rep(n, s) == IF n <= 0 THEN <<>> ELSE s \o Rep(n - 1, s)

MatchAt(s, p, i) ==
    /\ i + Len(p) - 1 <= Len(s)
    /\ \A k \in 1..Len(p) : s[i + k - 1] = p[k]

\* number of positions of s where p occurs
Count(p, s) == Cardinality({i \in 1..Len(s) : MatchAt(s, p, i)})

Contains(s, p) == \E i \in 1..Len(s) : MatchAt(s, p, i)

EndsWith(s, c) == Len(s) > 0 /\ s[Len(s)] = c

Suffix(s, n) == IF Len(s) <= n THEN s ELSE SubSeq(s, Len(s) - n + 1, Len(s))

-----------------------------------------------------------------------------
(* Colours *)

Color(r, g, b, a) == [r |-> r, g |-> g, b |-> b, a |-> a]
BLACK == Color(0, 0, 0, 255)
WHITE == Color(255, 255, 255, 255)
DefaultLineHighlight == Color(255, 255, 0, 0)

HexDigits == <<"0", "1", "2", "3", "4", "5", "6", "7",
               "8", "9", "a", "b", "c", "d", "e", "f">>

\* {:02x} of a u8
Hex2(n) == <<HexDigits[(n \div 16) + 1], HexDigits[(n % 16) + 1]>>

write_css_color_always_alpha(s, c) ==
    s \o <<"#">> \o Hex2(c.r) \o Hex2(c.g) \o Hex2(c.b) \o Hex2(c.a)

write_css_color(s, c) ==
    IF c.a # 255
    THEN s \o <<"#">> \o Hex2(c.r) \o Hex2(c.g) \o Hex2(c.b) \o Hex2(c.a)
    ELSE s \o <<"#">> \o Hex2(c.r) \o Hex2(c.g) \o Hex2(c.b)

unwrap_or(o, d) == IF o.some THEN o.val ELSE d

-----------------------------------------------------------------------------
(* HTML escaping *)

\* tera::escape_html, one character
tera_escape_char(c) ==
    CASE c = "&" -> <<"&", "a", "m", "p", ";">>
      [] c = "<" -> <<"&", "l", "t", ";">>
      [] c = ">" -> <<"&", "g", "t", ";">>
      [] c = "\"" -> <<"&", "q", "u", "o", "t", ";">>
      [] c = "'" -> <<"&", "#", "x", "2", "7", ";">>
      [] c = "/" -> <<"&", "#", "x", "2", "F", ";">>
      [] OTHER -> <<c>>

escape_html_identity(line) == line

\* tera::escape_html of line[lo..hi] (by halves: the depth stays small)
RECURSIVE escape_html_range(_, _, _)
escape_html_range(line, lo, hi) ==
    IF lo > hi THEN <<>>
    ELSE IF lo = hi THEN tera_escape_char(line[lo])
    ELSE LET mid == (lo + hi) \div 2
         IN  escape_html_range(line, lo, mid) \o escape_html_range(line, mid + 1, hi)

\* tera::escape_html
escape_html(line) == escape_html_range(line, 1, Len(line))

\* syntect::html::Escape, one character
syntect_escape_char(c) ==
    CASE c = ">" -> <<"&", "g", "t", ";">>
      [] c = "<" -> <<"&", "l", "t", ";">>
      [] c = "&" -> <<"&", "a", "m", "p", ";">>
      [] c = "'" -> <<"&", "#", "3", "9", ";">>
      [] c = "\"" -> <<"&", "q", "u", "o", "t", ";">>
      [] OTHER -> <<c>>

\* syntect::html::Escape of text[lo..hi] (by halves)
RECURSIVE EscapeRange(_, _, _)
EscapeRange(text, lo, hi) ==
    IF lo > hi THEN <<>>
    ELSE IF lo = hi THEN syntect_escape_char(text[lo])
    ELSE LET mid == (lo + hi) \div 2
         IN  EscapeRange(text, lo, mid) \o EscapeRange(text, mid + 1, hi)

\* syntect::html::Escape(text)
Escape(text) == EscapeRange(text, 1, Len(text))

-----------------------------------------------------------------------------
(* Class mode: ClassHighlighter *)

CLASS_PREFIX == <<"z", "-">>
SPAN_OPEN == <<"<", "s", "p", "a", "n">>
SPAN_CLOSE == <<"<", "/", "s", "p", "a", "n", ">">>

\* the scope the grammar assigns, "k.c", as the sequence of its atoms
Scopes == {<<"k", "c">>}

\* syntect::html::scope_to_classes under ClassStyle::SpacedPrefixed { prefix }
RECURSIVE scope_to_classes(_, _)
scope_to_classes(scope, i) ==
    IF i > Len(scope) THEN <<>>
    ELSE (IF i # 1 THEN <<" ">> ELSE <<>>) \o CLASS_PREFIX \o <<scope[i]>>
         \o scope_to_classes(scope, i + 1)

Push(scope) == [kind |-> "Push", scope |-> scope]
Pop(n) == [kind |-> "Pop", count |-> n]

\* what the tokenizer may report at one token boundary
BoundaryOps ==
    {<<>>, <<Pop(1)>>, <<Pop(2)>>}
    \cup {<<Push(sc)>> : sc \in Scopes}
    \cup {<<Push(sc), Pop(1)>> : sc \in Scopes}

RECURSIVE DepthAfter(_, _, _)
\* the number of contexts open after ops[k..], starting from depth
DepthAfter(ops, k, depth) ==
    IF k > Len(ops) THEN depth
    ELSE DepthAfter(ops, k + 1,
                    IF ops[k].kind = "Push" THEN depth + 1 ELSE depth - ops[k].count)

\* the tokenizer's contract: it closes only contexts that are open
ClosesOnlyOpen(ops, depth) ==
    \A k \in 1..Len(ops) : DepthAfter(SubSeq(ops, 1, k), 1, depth) >= 0

At(i, ops) == [k \in 1..Len(ops) |-> [i |-> i, op |-> ops[k]]]

\* The (index, op) pairs the tokenizer may report for a line whose token
\* boundaries from the k-th on are pos[k..], with `depth` contexts open.
RECURSIVE GenOps(_, _, _)
GenOps(pos, k, depth) ==
    IF k > Len(pos) THEN {<<>>}
    ELSE UNION { {At(pos[k], b) \o rest :
                     rest \in GenOps(pos, k + 1, DepthAfter(b, 1, depth))}
                 : b \in {c \in BoundaryOps : ClosesOnlyOpen(c, depth)} }

\* the closure passed to apply_with_hook, BasicScopeStackOp::Push(scope)
HookPush(st, scope) ==
    [st EXCEPT !.span_start = Len(st.s),
               !.span_empty = TRUE,
               !.s = st.s \o SPAN_OPEN \o <<" ", "c", "l", "a", "s", "s", "=", "\"">> \o scope_to_classes(scope, 1) \o <<"\"", ">">>,
               !.span_delta = st.span_delta + 1]

\* the closure passed to apply_with_hook, BasicScopeStackOp::Pop
HookPop(st) ==
    [st EXCEPT !.s = IF ~st.span_empty THEN st.s \o SPAN_CLOSE
                     ELSE SubSeq(st.s, 1, st.span_start),
               !.span_delta = st.span_delta - 1,
               !.span_empty = FALSE]

\* ScopeStack::apply_with_hook, ScopeStackOp::Pop(count): count times pop and hook
RECURSIVE ApplyPop(_, _)
ApplyPop(st, count) ==
    IF count = 0 THEN st
    ELSE ApplyPop(HookPop([st EXCEPT !.stack =
                     IF Len(st.stack) = 0 THEN <<>>
                     ELSE SubSeq(st.stack, 1, Len(st.stack) - 1)]), count - 1)

\* one iteration of the loop over the (index, op) pairs
ApplyOp(line, st, o) ==
    LET st1 == IF o.i > st.cur_index
               THEN [st EXCEPT !.span_empty = FALSE,
                               !.s = st.s \o Escape(SubSeq(line, st.cur_index + 1, o.i)),
                               !.cur_index = o.i]
               ELSE st
    IN  IF o.op.kind = "Push"
        THEN HookPush([st1 EXCEPT !.stack = Append(st1.stack, o.op.scope)], o.op.scope)
        ELSE ApplyPop(st1, o.op.count)

RECURSIVE ApplyOps(_, _, _, _)
ApplyOps(line, ops, k, st) ==
    IF k > Len(ops) THEN st
    ELSE ApplyOps(line, ops, k + 1, ApplyOp(line, st, ops[k]))

\* syntect::html::line_tokens_to_classed_spans: the markup, the delta and the
\* scope stack it leaves
line_tokens_to_classed_spans(line, ops, stack) ==
    LET st == ApplyOps(line, ops, 1,
                       [s |-> <<>>, cur_index |-> 0, span_delta |-> 0,
                        span_empty |-> FALSE, span_start |-> 0, stack |-> stack])
    IN  [formatted_line |-> st.s \o Escape(SubSeq(line, st.cur_index + 1, Len(line))),
         delta |-> st.span_delta,
         stack |-> st.stack]

AddDeltaDropped(open, delta) == IF delta < 0 THEN open ELSE open + delta

\* self.open_spans += delta
AddDelta(open, delta) == open + delta

ClosingTagsOneShort(open) == Rep(open - 1, SPAN_CLOSE)

\* the loop of ClassHighlighter::finalize: for _ in 0..self.open_spans
ClosingTags(open) == Rep(open, SPAN_CLOSE)

OpenSpansReset(open) == 0

\* self.open_spans after ClassHighlighter::finalize: not assigned
OpenSpansAfterFinalize(open) == open

-----------------------------------------------------------------------------
(* Inline mode: InlineHighlighter *)

Style(fg, bg, font) == [foreground |-> fg, background |-> bg, font_style |-> font]

\* the characters with the Unicode White_Space property that a string of this
\* module can hold: U+0009 to U+000D, U+0020, U+0085 and U+00A0 (the ones
\* above U+00FF cannot be written here, and no line of the model holds one)
WhiteSpace ==
    {"\t", "\n", "", "\f", "\r", " ", "", " "}

\* text.trim().is_empty()
IsWhitespace(text) == \A k \in 1..Len(text) : text[k] \in WhiteSpace

\* the body of the loop of syntect::html::append_highlighted_html_for_styled_line
\* for one (style, text) region; bg is IncludeBackground::IfDifferent(bg)
AppendRegion(st, region, bg) ==
    LET style == region.style
        text == region.text
        unify_style ==
            IF st.prev.some
            THEN \/ style = st.prev.val
                 \/ (style.background = st.prev.val.background /\ IsWhitespace(text))
            ELSE FALSE
        s1 == (IF st.prev.some THEN st.s \o <<"<", "/", "s", "p", "a", "n", ">">> ELSE st.s) \o <<"<", "s", "p", "a", "n", " ", "s", "t", "y", "l", "e", "=", "\"">>
        s2 == IF style.background # bg
              THEN write_css_color(s1 \o <<"b", "a", "c", "k", "g", "r", "o", "u", "n", "d", "-", "c", "o", "l", "o", "r", ":">>, style.background) \o <<";">>
              ELSE s1
        s3 == IF "UNDERLINE" \in style.font_style
              THEN s2 \o <<"t", "e", "x", "t", "-", "d", "e", "c", "o", "r", "a", "t", "i", "o", "n", ":", "u", "n", "d", "e", "r", "l", "i", "n", "e", ";">> ELSE s2
        s4 == IF "BOLD" \in style.font_style THEN s3 \o <<"f", "o", "n", "t", "-", "w", "e", "i", "g", "h", "t", ":", "b", "o", "l", "d", ";">> ELSE s3
        s5 == IF "ITALIC" \in style.font_style THEN s4 \o <<"f", "o", "n", "t", "-", "s", "t", "y", "l", "e", ":", "i", "t", "a", "l", "i", "c", ";">> ELSE s4
    IN  IF unify_style
        THEN [st EXCEPT !.s = st.s \o Escape(text)]
        ELSE [s |-> write_css_color(s5 \o <<"c", "o", "l", "o", "r", ":">>, style.foreground)
                     \o <<";", "\"", ">">> \o Escape(text),
              prev |-> Some(style)]

RECURSIVE AppendRegions(_, _, _, _)
AppendRegions(regions, k, st, bg) ==
    IF k > Len(regions) THEN st
    ELSE AppendRegions(regions, k + 1, AppendRegion(st, regions[k], bg), bg)

\* syntect::html::styled_line_to_highlighted_html(regions, IfDifferent(bg))
styled_line_to_highlighted_html(regions, bg) ==
    LET st == AppendRegions(regions, 1, [s |-> <<>>, prev |-> NoneVal], bg)
    IN  IF st.prev.some THEN st.s \o <<"<", "/", "s", "p", "a", "n", ">">> ELSE st.s

\* the first position >= i of s where `from` occurs, 0 when there is none
find(s, from, i) ==
    LET m == {j \in i..Len(s) : MatchAt(s, from, j)}
    IN  IF m = {} THEN 0 ELSE CHOOSE j \in m : \A k \in m : j <= k

replace_first(s, from, i) ==
    LET j == find(s, from, i)
    IN  IF j = 0 THEN SubSeq(s, i, Len(s))
        ELSE SubSeq(s, i, j - 1) \o SubSeq(s, j + Len(from), Len(s))

\* str::replace(from, ""): every non-overlapping match, left to right, from
\* position i on
RECURSIVE replace(_, _, _)
replace(s, from, i) ==
    LET j == find(s, from, i)
    IN  IF j = 0 THEN SubSeq(s, i, Len(s))
        ELSE SubSeq(s, i, j - 1) \o replace(s, from, j + Len(from))

\* InlineHighlighter::new: fg_color
FgFragment(th) ==
    <<" ", "s", "t", "y", "l", "e", "=", "\"", "c", "o", "l", "o", "r", ":">> \o write_css_color(<<>>, unwrap_or(th.foreground, BLACK)) \o <<";", "\"">>

\* InlineHighlighter::new: bg_color
BgColor(th) == unwrap_or(th.background, WHITE)

\* The styles the theme may resolve a token to: the theme's defaults, another
\* foreground, another background with a font style.
OtherFg == Color(171, 205, 239, 255)
OtherBg == Color(16, 32, 48, 128)
Styles(th) ==
    LET fg == unwrap_or(th.foreground, BLACK)
        bg == unwrap_or(th.background, WHITE)
    IN  {Style(fg, bg, {}), Style(OtherFg, bg, {}), Style(fg, OtherBg, {"BOLD"})}

\* HighlightLines::highlight: the possible styled regions of a line given as
\* its tokens, one region per token
highlight(line, th) ==
    {[k \in 1..Len(line) |-> [style |-> f[k], text |-> line[k]]] :
        f \in [1..Len(line) -> Styles(th)]}

-----------------------------------------------------------------------------
(* Inputs: lines (as the tokens the grammar splits them into) and themes *)

RECURSIVE Text(_, _)
\* the line's text: its tokens from the k-th on, concatenated
Text(line, k) == IF k > Len(line) THEN <<>> ELSE line[k] \o Text(line, k + 1)

\* the byte offsets at which the line's tokens start and end
Boundaries(line) == [k \in 1..Len(line) + 1 |-> Len(Text(SubSeq(line, 1, k - 1), 1))]

\* "<script>alert('hello')</script>", the line of tests::no_highlight_escapes_html
ScriptLine == <<<<"<", "s", "c", "r", "i", "p", "t", ">", "a", "l", "e", "r", "t", "(", "'", "h", "e", "l", "l", "o", "'", ")", "<", "/", "s", "c", "r", "i", "p", "t", ">">>>>

\* a line whose text holds the default-foreground fragment of a theme without
\* foreground inside a split copy of itself
NestedFragmentLine == <<<<" ", "s", "t", "y", "l", "e", "=", "\"", " ", "s", "t", "y", "l", "e", "=", "\"", "c", "o", "l", "o", "r", ":", "#", "0", "0", "0", "0", "0", "0", ";", "\"", "c", "o", "l", "o", "r", ":", "#", "0", "0", "0", "0", "0", "0", ";", "\"", "\n">>>>

ClassedLines == {<<<<"<", "\n">>>>, <<<<"x">>>>}
InlinedLines ==
    {<<<<"x">>, <<" ">>, <<"\"", "\n">>>>, <<<<"x">>, <<"\r", "\n">>>>,
     NestedFragmentLine, <<<<"x">>>>}
PlainLines == {ScriptLine, <<<<"a", "&", "b", "\n">>>>, <<<<"\"", "/", ">", "\n">>>>}

LinesFor(v) ==
    CASE v = "Classed" -> ClassedLines
      [] v = "Inlined" -> InlinedLines
      [] OTHER -> PlainLines

NoTheme == [present |-> FALSE]
ThemeOf(fg, bg, lh) ==
    [present |-> TRUE, foreground |-> fg, background |-> bg, line_highlight |-> lh]

Themes ==
    {NoTheme,
     ThemeOf(NoneVal, NoneVal, NoneVal),
     ThemeOf(Some(Color(248, 248, 242, 128)), Some(Color(39, 40, 34, 255)),
             Some(Color(62, 61, 50, 255)))}

\* ParseState::parse_line: the possible results for `line` in state `state`
parse_line(line, state) == GenOps(Boundaries(line), 1, state)

-----------------------------------------------------------------------------
(* The output stream, as far as the span counts need it *)

\* enough of the stream to see a tag that straddles two returned strings
TailLen == Len(SPAN_CLOSE) - 1

\* what appending `frag` to a stream ending in `t` adds to the number of
\* "<span" minus the number of "</span>" in the stream
BalanceOf(t, frag) ==
    (Count(SPAN_OPEN, t \o frag) - Count(SPAN_OPEN, t))
    - (Count(SPAN_CLOSE, t \o frag) - Count(SPAN_CLOSE, t))

Emit(frag) ==
    /\ balance' = balance + BalanceOf(tail, frag)
    /\ tail' = Suffix(tail \o frag, TailLen)

-----------------------------------------------------------------------------
(* The facade: SyntaxHighlighter *)

SelectIgnoringFlag(enabled, th) == IF th.present THEN "Inlined" ELSE "Classed"

\* SyntaxHighlighter::new: the variant built
Select(enabled, th) ==
    IF enabled
    THEN IF th.present THEN "Inlined" ELSE "Classed"
    ELSE "NoHighlight"

Init ==
    /\ highlight_code \in BOOLEAN
    /\ theme \in Themes
    /\ debug \in BOOLEAN
    /\ variant = Select(highlight_code, theme)
    /\ open_spans = 0
    /\ scope_stack = <<>>
    /\ parse_state = 0
    /\ fg_color = IF variant = "Inlined" THEN FgFragment(theme) ELSE <<>>
    /\ bg_color = IF variant = "Inlined" THEN BgColor(theme) ELSE WHITE
    /\ op = "new"
    /\ arg = <<>>
    /\ ret = NoneVal
    /\ panicked = FALSE
    /\ lines = 0
    /\ finalizes = 0
    /\ streak = 0
    /\ balance = 0
    /\ tail = <<>>
    /\ color = BLACK
    /\ buf = <<>>

AssertsNewlineBoth(v) == v \in {"Classed", "Inlined"}

\* which variants' highlight_line starts with debug_assert!(line.ends_with('\n'))
AssertsNewline(v) == v = "Classed"

\* debug_assert!(line.ends_with('\n')) fails: the call panics
HighlightLinePanics(line) ==
    /\ AssertsNewline(variant)
    /\ debug
    /\ ~EndsWith(Text(line, 1), "\n")
    /\ panicked' = TRUE
    /\ op' = "highlight_line"
    /\ arg' = Text(line, 1)
    /\ ret' = NoneVal
    /\ lines' = lines + 1
    /\ streak' = 0
    /\ UNCHANGED <<highlight_code, theme, debug, variant, open_spans, scope_stack,
                   parse_state, fg_color, bg_color, finalizes, balance, tail,
                   color, buf>>

\* ClassHighlighter::highlight_line
ClassHighlightLine(line) ==
    /\ variant = "Classed"
    /\ ~(debug /\ AssertsNewline(variant) /\ ~EndsWith(Text(line, 1), "\n"))
    /\ \E ops \in parse_line(line, parse_state) :
          LET r == line_tokens_to_classed_spans(Text(line, 1), ops, scope_stack)
          IN  /\ parse_state' = DepthAfter([k \in 1..Len(ops) |-> ops[k].op], 1, parse_state)
              /\ scope_stack' = r.stack
              /\ open_spans' = AddDelta(open_spans, r.delta)
              /\ ret' = Some(r.formatted_line)
              /\ Emit(r.formatted_line)
    /\ UNCHANGED <<fg_color, bg_color>>

\* InlineHighlighter::highlight_line
InlineHighlightLine(line) ==
    /\ variant = "Inlined"
    /\ ~(debug /\ AssertsNewline(variant) /\ ~EndsWith(Text(line, 1), "\n"))
    /\ \E regions \in highlight(line, theme) :
          LET highlighted == styled_line_to_highlighted_html(regions, bg_color)
              out == replace(highlighted, fg_color, 1)
          IN  /\ ret' = Some(out)
              /\ Emit(out)
    /\ UNCHANGED <<open_spans, scope_stack, parse_state, fg_color, bg_color>>

\* SyntaxHighlighter::highlight_line, NoHighlight => escape_html(line)
PlainHighlightLine(line) ==
    /\ variant = "NoHighlight"
    /\ ret' = Some(escape_html(Text(line, 1)))
    /\ Emit(escape_html(Text(line, 1)))
    /\ UNCHANGED <<open_spans, scope_stack, parse_state, fg_color, bg_color>>

\* SyntaxHighlighter::highlight_line
HighlightLine ==
    /\ ~panicked
    /\ lines < MaxLines
    /\ \E line \in LinesFor(variant) :
          \/ HighlightLinePanics(line)
          \/ /\ \/ ClassHighlightLine(line)
                \/ InlineHighlightLine(line)
                \/ PlainHighlightLine(line)
             /\ op' = "highlight_line"
             /\ arg' = Text(line, 1)
             /\ lines' = lines + 1
             /\ streak' = 0
             /\ UNCHANGED <<highlight_code, theme, debug, variant, panicked,
                            finalizes, color, buf>>

\* String::with_capacity((self.open_spans * 7) as usize) panics with a
\* capacity overflow when the product is negative
FinalizePanics ==
    /\ variant = "Classed"
    /\ open_spans * 7 < 0
    /\ panicked' = TRUE
    /\ ret' = NoneVal
    /\ UNCHANGED <<open_spans, balance, tail>>

\* ClassHighlighter::finalize
ClassFinalize ==
    /\ variant = "Classed"
    /\ open_spans * 7 >= 0
    /\ ret' = Some(ClosingTags(open_spans))
    /\ Emit(ClosingTags(open_spans))
    /\ open_spans' = OpenSpansAfterFinalize(open_spans)
    /\ UNCHANGED panicked

\* SyntaxHighlighter::finalize, Inlined(_) | NoHighlight => None
NoFinalize ==
    /\ variant \in {"Inlined", "NoHighlight"}
    /\ ret' = NoneVal
    /\ UNCHANGED <<open_spans, balance, tail, panicked>>

\* SyntaxHighlighter::finalize
Finalize ==
    /\ ~panicked
    /\ finalizes < MaxFinalize
    /\ \/ FinalizePanics
       \/ ClassFinalize
       \/ NoFinalize
    /\ op' = "finalize"
    /\ finalizes' = finalizes + 1
    /\ streak' = streak + 1
    /\ UNCHANGED <<highlight_code, theme, debug, variant, scope_stack, parse_state,
                   fg_color, bg_color, arg, lines, color, buf>>

Accessor(name, value) ==
    /\ ~panicked
    /\ op' = name
    /\ ret' = value
    /\ UNCHANGED <<highlight_code, theme, debug, variant, open_spans, scope_stack,
                   parse_state, fg_color, bg_color, arg, panicked, lines, finalizes,
                   streak, balance, tail, color, buf>>

PreStyleValueSwapped(v, th) ==
    IF v = "Inlined"
    THEN Some(write_css_color(
                write_css_color(<<"b", "a", "c", "k", "g", "r", "o", "u", "n", "d", "-", "c", "o", "l", "o", "r", ":">>, unwrap_or(th.foreground, BLACK))
                \o <<";", "c", "o", "l", "o", "r", ":">>, unwrap_or(th.background, WHITE)) \o <<";">>)
    ELSE NoneVal

\* SyntaxHighlighter::pre_style: the value returned
PreStyleValue(v, th) ==
    IF v = "Inlined"
    THEN Some(write_css_color(
                write_css_color(<<"b", "a", "c", "k", "g", "r", "o", "u", "n", "d", "-", "c", "o", "l", "o", "r", ":">>, unwrap_or(th.background, WHITE))
                \o <<";", "c", "o", "l", "o", "r", ":">>, unwrap_or(th.foreground, BLACK)) \o <<";">>)
    ELSE NoneVal

PreClassValueAlways(v) == Some(CLASS_PREFIX \o <<"c", "o", "d", "e">>)

\* SyntaxHighlighter::pre_class: the value returned
PreClassValue(v) ==
    IF v = "Classed" THEN Some(CLASS_PREFIX \o <<"c", "o", "d", "e">>) ELSE NoneVal

\* SyntaxHighlighter::mark_style: the value returned
MarkStyleValue(v, th) ==
    IF v = "Inlined"
    THEN Some(write_css_color(<<"b", "a", "c", "k", "g", "r", "o", "u", "n", "d", "-", "c", "o", "l", "o", "r", ":">>,
                              unwrap_or(th.line_highlight, DefaultLineHighlight))
              \o <<";">>)
    ELSE NoneVal

\* SyntaxHighlighter::pre_style
PreStyle == Accessor("pre_style", PreStyleValue(variant, theme))

\* SyntaxHighlighter::pre_class
PreClass == Accessor("pre_class", PreClassValue(variant))

\* SyntaxHighlighter::mark_style
MarkStyle == Accessor("mark_style", MarkStyleValue(variant, theme))

Next == HighlightLine \/ Finalize \/ PreStyle \/ PreClass \/ MarkStyle

Spec == Init /\ [][Next]_vars

-----------------------------------------------------------------------------
(* The colour formatter on its own *)

\* the colours written: every red, some greens and blues, alphas around the
\* opaque one
Colors ==
    {Color(r, g, b, a) : r \in 0..255, g \in {10, 255}, b \in {0, 201},
                         a \in {0, 1, 128, 254, 255}}

InitColor ==
    /\ color \in Colors
    /\ buf \in {<<>>, <<"c", "o", "l", "o", "r", ":">>}
    /\ arg = buf
    /\ op = "new"
    /\ highlight_code = FALSE
    /\ theme = NoTheme
    /\ debug = FALSE
    /\ variant = "NoHighlight"
    /\ open_spans = 0
    /\ scope_stack = <<>>
    /\ parse_state = 0
    /\ fg_color = <<>>
    /\ bg_color = WHITE
    /\ ret = NoneVal
    /\ panicked = FALSE
    /\ lines = 0
    /\ finalizes = 0
    /\ streak = 0
    /\ balance = 0
    /\ tail = <<>>

\* write_css_color(&mut buf, color)
WriteCssColor ==
    /\ op = "new"
    /\ buf' = write_css_color(buf, color)
    /\ op' = "write_css_color"
    /\ UNCHANGED <<highlight_code, theme, debug, variant, open_spans, scope_stack,
                   parse_state, fg_color, bg_color, arg, ret, panicked, lines,
                   finalizes, streak, balance, tail, color>>

NextColor == WriteCssColor

SpecColor == InitColor /\ [][NextColor]_vars

-----------------------------------------------------------------------------
(* Properties *)

IsClassed == variant = "Classed"
IsInlined == variant = "Inlined"
IsPlain == variant = "NoHighlight"
Returned(name) == op = name /\ ~panicked

\* C1: when the lines rendered by a ClassHighlighter are followed by one
\* finalize call, the concatenation of everything returned holds as many
\* "<span" as "</span>".
SpanBalance ==
    (IsClassed /\ Returned("finalize") /\ finalizes = 1) => balance = 0

SpanBalanceWitness ==
    /\ IsClassed /\ Returned("finalize") /\ finalizes = 1
    /\ lines = MaxLines
    /\ Count(SPAN_CLOSE, ret.val) = 2
    /\ balance = 0

\* C2: the variant is NoHighlight when highlight_code is false, Classed when
\* it is true without a theme, Inlined when it is true with a theme, and it
\* stays so after every call.
ModeSelection ==
    /\ ~highlight_code => IsPlain
    /\ (highlight_code /\ ~theme.present) => IsClassed
    /\ (highlight_code /\ theme.present) => IsInlined

ModeSelectionWitness ==
    /\ ~highlight_code /\ theme.present /\ IsPlain
    /\ lines = MaxLines /\ op = "mark_style" /\ finalizes > 0

\* C3 as stated: finalize resets open_spans to 0 and a second finalize right
\* after it returns the empty string.
FinalizeResets ==
    (IsClassed /\ Returned("finalize")) =>
        /\ open_spans = 0
        /\ streak >= 2 => ret = Some(<<>>)

\* C3, amended: finalize returns open_spans closing tags and leaves open_spans
\* as it was, so a second finalize right after it returns the same tags again.
FinalizeKeepsCount ==
    [][(IsClassed /\ op' = "finalize" /\ ~panicked') =>
          /\ ret' = Some(Rep(open_spans, SPAN_CLOSE))
          /\ open_spans' = open_spans
          /\ (op = "finalize" => ret' = ret)]_vars

FinalizeKeepsCountWitness ==
    /\ IsClassed /\ Returned("finalize") /\ streak = 2
    /\ open_spans = 2
    /\ ret = Some(SPAN_CLOSE \o SPAN_CLOSE)

\* C4: finalize and pre_class return Some exactly for Classed, pre_style and
\* mark_style return Some exactly for Inlined, all four None for NoHighlight.
ModeApplicability ==
    /\ Returned("finalize") => (ret.some <=> IsClassed)
    /\ Returned("pre_class") => (ret.some <=> IsClassed)
    /\ Returned("pre_style") => (ret.some <=> IsInlined)
    /\ Returned("mark_style") => (ret.some <=> IsInlined)

ModeApplicabilityWitness ==
    /\ IsClassed /\ Returned("pre_class") /\ ret.some
    /\ lines > 0 /\ finalizes > 0

Entities ==
    {<<"&", "a", "m", "p", ";">>, <<"&", "l", "t", ";">>, <<"&", "g", "t", ";">>, <<"&", "q", "u", "o", "t", ";">>, <<"&", "#", "x", "2", "7", ";">>, <<"&", "#", "x", "2", "F", ";">>}

\* C5: NoHighlight returns the escaped line: no "<", every "&" starts an
\* entity, at least as long as the line, a function of the line alone, and
\* no state of the emitter changes.
NoHighlightEscaping ==
    (IsPlain /\ Returned("highlight_line")) =>
        /\ ~Contains(ret.val, <<"<">>)
        /\ \A i \in 1..Len(ret.val) :
              ret.val[i] = "&" => \E e \in Entities : MatchAt(ret.val, e, i)
        /\ Len(ret.val) >= Len(arg)
        /\ ret = Some(escape_html(arg))
        /\ Len(ret.val) = Len(arg) + 3 * Count(<<"<">>, arg) + 3 * Count(<<">">>, arg)
                          + 4 * Count(<<"&">>, arg) + 5 * Count(<<"\"">>, arg)
                          + 5 * Count(<<"'">>, arg) + 5 * Count(<<"/">>, arg)
        /\ open_spans = 0 /\ scope_stack = <<>> /\ parse_state = 0

NoHighlightEscapingWitness ==
    /\ IsPlain /\ Returned("highlight_line")
    /\ lines = MaxLines
    /\ Contains(arg, <<"<", "s", "c", "r", "i", "p", "t", ">">>)
    /\ Contains(ret.val, <<"&", "l", "t", ";", "s", "c", "r", "i", "p", "t", "&", "g", "t", ";">>)

DigitValue(ch) ==
    CASE ch = "0" -> 0 [] ch = "1" -> 1 [] ch = "2" -> 2 [] ch = "3" -> 3
      [] ch = "4" -> 4 [] ch = "5" -> 5 [] ch = "6" -> 6 [] ch = "7" -> 7
      [] ch = "8" -> 8 [] ch = "9" -> 9 [] ch = "a" -> 10 [] ch = "b" -> 11
      [] ch = "c" -> 12 [] ch = "d" -> 13 [] ch = "e" -> 14 [] ch = "f" -> 15
      [] OTHER -> -1

ByteAt(s, i) == 16 * DigitValue(s[i]) + DigitValue(s[i + 1])

\* C6: the formatter appends "#" and the two lowercase hex digits of r, g, b,
\* and those of a unless a = 0xFF: 7 characters for an opaque colour, else 9.
ColorFormatting ==
    op = "write_css_color" =>
        LET n == Len(arg)
            out == SubSeq(buf, n + 1, Len(buf))
        IN  /\ SubSeq(buf, 1, n) = arg
            /\ Len(out) = IF color.a = 255 THEN 7 ELSE 9
            /\ out[1] = "#"
            /\ \A k \in 2..Len(out) : DigitValue(out[k]) >= 0
            /\ ByteAt(out, 2) = color.r
            /\ ByteAt(out, 4) = color.g
            /\ ByteAt(out, 6) = color.b
            /\ color.a # 255 => ByteAt(out, 8) = color.a

ColorFormattingWitness ==
    /\ op = "write_css_color"
    /\ color = Color(171, 10, 201, 0)
    /\ buf = <<"c", "o", "l", "o", "r", ":", "#", "a", "b", "0", "a", "c", "9", "0", "0">>

\* C7: no line returned by an InlineHighlighter holds fg_color, the
\* default-foreground style fragment.
InlineForegroundSuppression ==
    (IsInlined /\ Returned("highlight_line")) => ~Contains(ret.val, fg_color)

InlineForegroundSuppressionWitness ==
    /\ IsInlined /\ Returned("highlight_line")
    /\ fg_color = <<" ", "s", "t", "y", "l", "e", "=", "\"", "c", "o", "l", "o", "r", ":", "#", "0", "0", "0", "0", "0", "0", ";", "\"">>
    /\ arg = Text(NestedFragmentLine, 1)
    /\ Contains(ret.val, <<"<", "s", "p", "a", "n", ">", " ", "s", "t", "y", "l", "e", "=", "&", "q", "u", "o", "t", ";">>)

Unterminated == ~EndsWith(arg, "\n")

\* C8 as stated: with debug assertions on, an unterminated line trips the
\* check in both stateful emitters.
LineTerminationBoth ==
    (op = "highlight_line" /\ debug /\ Unterminated /\ (IsClassed \/ IsInlined))
        => panicked

\* C8, amended: highlight_line panics exactly when debug assertions are on,
\* the emitter is Classed and the line is unterminated; Inlined and
\* NoHighlight return markup for an unterminated line.
LineTerminationClassed ==
    op = "highlight_line" =>
        /\ panicked <=> (debug /\ IsClassed /\ Unterminated)
        /\ ~panicked => ret.some

LineTerminationClassedWitness ==
    /\ op = "highlight_line" /\ debug /\ IsClassed /\ Unterminated /\ panicked
    /\ lines = MaxLines

\* C9: until finalize is called, open_spans is the number of "<span" minus
\* the number of "</span>" returned so far; it is never negative and finalize
\* never panics.
OpenSpanCount ==
    IsClassed =>
        /\ open_spans >= 0
        /\ ~(op = "finalize" /\ panicked)
        /\ finalizes = 0 => open_spans = balance

OpenSpanCountWitness ==
    /\ IsClassed /\ Returned("highlight_line") /\ finalizes = 0
    /\ lines = MaxLines
    /\ open_spans = 1
    /\ Count(SPAN_CLOSE, ret.val) = 1 /\ Count(SPAN_OPEN, ret.val) = 0

\* C10: for a theme without foreground, background and line-highlight
\* settings, pre_style is a white background with a black foreground, both
\* opaque, mark_style is yellow with alpha 0, and the stripped fragment
\* carries pre_style's foreground.
FallbackDefaults ==
    (IsInlined /\ theme = ThemeOf(NoneVal, NoneVal, NoneVal)) =>
        /\ op = "pre_style" => ret = Some(<<"b", "a", "c", "k", "g", "r", "o", "u", "n", "d", "-", "c", "o", "l", "o", "r", ":", "#", "f", "f", "f", "f", "f", "f", ";", "c", "o", "l", "o", "r", ":", "#", "0", "0", "0", "0", "0", "0", ";">>)
        /\ op = "mark_style" => ret = Some(<<"b", "a", "c", "k", "g", "r", "o", "u", "n", "d", "-", "c", "o", "l", "o", "r", ":", "#", "f", "f", "f", "f", "0", "0", "0", "0", ";">>)
        /\ fg_color = <<" ", "s", "t", "y", "l", "e", "=", "\"", "c", "o", "l", "o", "r", ":", "#", "0", "0", "0", "0", "0", "0", ";", "\"">>

FallbackDefaultsWitness ==
    /\ IsInlined /\ theme = ThemeOf(NoneVal, NoneVal, NoneVal)
    /\ op = "mark_style" /\ ret = Some(<<"b", "a", "c", "k", "g", "r", "o", "u", "n", "d", "-", "c", "o", "l", "o", "r", ":", "#", "f", "f", "f", "f", "0", "0", "0", "0", ";">>)
    /\ lines > 0

=============================================================================
